---------------------------- MODULE Spec2Model ----------------------------
(***************************************************************************)
(* Model of the ooml parser (src/src/lib.rs): a nom parser-combinator      *)
(* grammar for an indentation-sensitive configuration language.            *)
(*                                                                         *)
(* Text is a sequence of one-character strings.  A parser is an operator   *)
(* from the remaining input to a result record: Ok(rest, out) for nom's    *)
(* Ok((rest, out)), Error for Err(Err::Error(_)) (recoverable: alt, many1, *)
(* opt and separated_list1 go on), Failure for Err(Err::Failure(_))        *)
(* (raised by cut, passed through by every combinator).                    *)
(*                                                                         *)
(* parse first calls nom_indent::indent (an external crate) and prints its *)
(* output (lib.rs:85-87); the value parse returns does not depend on it,   *)
(* and the model covers the calls that return.                             *)
(***************************************************************************)
EXTENDS Integers, Sequences, FiniteSets

VARIABLES input, lines, pc, result

vars == <<input, lines, pc, result>>

(***************************** characters *********************************)

Digits == {"0", "1", "2", "3", "4", "5", "6", "7", "8", "9"}

Letters ==
    {"a", "b", "c", "d", "e", "f", "g", "h", "i", "j", "k", "l", "m",
     "n", "o", "p", "q", "r", "s", "t", "u", "v", "w", "x", "y", "z",
     "A", "B", "C", "D", "E", "F", "G", "H", "I", "J", "K", "L", "M",
     "N", "O", "P", "Q", "R", "S", "T", "U", "V", "W", "X", "Y", "Z"}

DigitVal(c) ==
    CASE c = "0" -> 0 [] c = "1" -> 1 [] c = "2" -> 2 [] c = "3" -> 3
      [] c = "4" -> 4 [] c = "5" -> 5 [] c = "6" -> 6 [] c = "7" -> 7
      [] c = "8" -> 8 [] c = "9" -> 9

(************************** parser results ********************************)

Ok(rest, out) == [ok |-> TRUE, fatal |-> FALSE, rest |-> rest, out |-> out]

Error == [ok |-> FALSE, fatal |-> FALSE]

Failure == [ok |-> FALSE, fatal |-> TRUE]

Drop(i, n) == SubSeq(i, n + 1, Len(i))

Take(i, n) == SubSeq(i, 1, n)

(************************** nom combinators *******************************)

(* A combinator that nom applies to parsers is applied here to the result  *)
(* of its first parser and to the parsers that run after it.               *)

\* bytes::complete::tag: the input starts with t.
tag(t, i) ==
    IF Len(i) >= Len(t) /\ Take(i, Len(t)) = t
    THEN Ok(Drop(i, Len(t)), t)
    ELSE Error

\* character::complete::char
char(c, i) == tag(<<c>>, i)

\* character::complete::newline
newline(i) == char("\n", i)

\* combinator::eof
eof(i) == IF i = <<>> THEN Ok(i, <<>>) ELSE Error

\* Length of the longest prefix of i whose characters are all in set.
RECURSIVE SpanLen(_, _)
SpanLen(set, i) ==
    IF i # <<>> /\ Head(i) \in set THEN 1 + SpanLen(set, Tail(i)) ELSE 0

\* The non-empty run of characters of set that i starts with
\* (alphanumeric1, digit1, and many1 over an alt of one-character parsers).
Run1(set, i) ==
    IF SpanLen(set, i) = 0 THEN Error
    ELSE Ok(Drop(i, SpanLen(set, i)), Take(i, SpanLen(set, i)))

\* branch::alt, two branches: b is tried when a ended in Err::Error.
alt(a, b) == IF a.ok \/ a.fatal THEN a ELSE b

\* combinator::value (imported as v): the parser's output replaced by val.
v(val, r) == IF r.ok THEN Ok(r.rest, val) ELSE r

\* combinator::opt on input i: Err::Error becomes success without output.
opt(i, r) == IF r.ok \/ r.fatal THEN r ELSE Ok(i, <<>>)

\* A parser or a closure handed to a combinator is named by a string:
\* run(p, i) is parser p on input i, call(f, x) is closure f on output x.
RECURSIVE run(_, _), call(_, _)

\* combinator::map
map(r, f) == IF r.ok THEN Ok(r.rest, call(f, r.out)) ELSE r

\* sequence::preceded: r is the first parser's result, dropped.
preceded(r, second) == IF r.ok THEN run(second, r.rest) ELSE r

\* The first parser's output kept over the second parser's result.
keep(out, r2) == IF r2.ok THEN Ok(r2.rest, out) ELSE r2

\* sequence::terminated: r is the first parser's result.
terminated(r, second) == IF r.ok THEN keep(r.out, run(second, r.rest)) ELSE r

pair(out, r2) == IF r2.ok THEN Ok(r2.rest, <<out, r2.out>>) ELSE r2

\* sequence::separated_pair: r is the first parser's result.
separated_pair(r, sep, second) ==
    IF r.ok THEN pair(r.out, preceded(run(sep, r.rest), second)) ELSE r

\* multi::many1 after the first element: r is f's result on i; the loop
\* ends, keeping acc, when f ends in Err::Error.
RECURSIVE many_more(_, _, _, _)
many_more(i, acc, r, f) ==
    IF r.ok THEN many_more(r.rest, Append(acc, r.out), run(f, r.rest), f)
    ELSE IF r.fatal THEN r
    ELSE Ok(i, acc)

\* multi::many1: r is f's result on the input.
many1(r, f) ==
    IF r.ok THEN many_more(r.rest, <<r.out>>, run(f, r.rest), f) ELSE r

\* multi::separated_list1 after the first element: r is the result of sep
\* then f on i, and the list ends BEFORE the separator, keeping acc, when
\* either of the two ends in Err::Error.
RECURSIVE separated_more(_, _, _, _, _)
separated_more(i, acc, r, sep, f) ==
    IF r.ok THEN separated_more(r.rest, Append(acc, r.out),
                                preceded(run(sep, r.rest), f), sep, f)
    ELSE IF r.fatal THEN r
    ELSE Ok(i, acc)

\* multi::separated_list1: r is f's result on the input.
separated_list1(r, sep, f) ==
    IF r.ok THEN separated_more(r.rest, <<r.out>>,
                                preceded(run(sep, r.rest), f), sep, f)
    ELSE r

(***************************** Value **************************************)

String(text) == [kind |-> "String", text |-> text]

\* An f64 is kept as the decimal it was read from, mant * 10^exp with mant
\* carrying no trailing zero, so that equal numbers are equal values
\* (1.0 = 1, 10 = 1e1).  Texts of the lengths modelled stay far inside the
\* range where distinct short decimals are distinct doubles.
RECURSIVE Number(_, _)
Number(mant, exp) ==
    IF mant = 0 THEN [kind |-> "Number", mant |-> 0, exp |-> 0]
    ELSE IF mant % 10 = 0 THEN Number(mant \div 10, exp + 1)
    ELSE [kind |-> "Number", mant |-> mant, exp |-> exp]

Bool(b) == [kind |-> "Bool", b |-> b]

Object(m) == [kind |-> "Object", map |-> m]

Array(items) == [kind |-> "Array", items |-> items]

\* The index of the last pair of pairs whose key is k.
LastOf(pairs, k) ==
    CHOOSE j \in DOMAIN pairs :
        /\ pairs[j][1] = k
        /\ \A m \in DOMAIN pairs : pairs[m][1] = k => m <= j

\* collect::<HashMap<_, _>>() of the (key, value) pairs: a later pair with
\* the same key replaces the earlier one.
collect(pairs) ==
    [k \in {pairs[j][1] : j \in DOMAIN pairs} |-> pairs[LastOf(pairs, k)][2]]

(************************** scalar lexers *********************************)

boolean(i) ==
    alt(v(TRUE, tag(<<"t", "r", "u", "e">>, i)),
        v(FALSE, tag(<<"f", "a", "l", "s", "e">>, i)))

RECURSIVE ToNat(_)
ToNat(ds) ==
    IF ds = <<>> THEN 0
    ELSE 10 * ToNat(Take(ds, Len(ds) - 1)) + DigitVal(ds[Len(ds)])

SignLen(i) == IF i # <<>> /\ Head(i) \in {"+", "-"} THEN 1 ELSE 0

Signed(i, n) == IF i # <<>> /\ Head(i) = "-" THEN 0 - n ELSE n

\* digit1 ( '.' digit1? )?  after the integer digits int: the text left
\* is after.
mantissa_int(int, after) ==
    IF after # <<>> /\ Head(after) = "."
    THEN [ok |-> TRUE, int |-> int,
          frac |-> Take(Tail(after), SpanLen(Digits, Tail(after))),
          len |-> Len(int) + 1 + SpanLen(Digits, Tail(after))]
    ELSE [ok |-> TRUE, int |-> int, frac |-> <<>>, len |-> Len(int)]

\* '.' digit1
mantissa_dot(i) ==
    IF i # <<>> /\ Head(i) = "." /\ SpanLen(Digits, Tail(i)) > 0
    THEN [ok |-> TRUE, int |-> <<>>,
          frac |-> Take(Tail(i), SpanLen(Digits, Tail(i))),
          len |-> 1 + SpanLen(Digits, Tail(i))]
    ELSE [ok |-> FALSE]

\* alt(( digit1 ( '.' digit1? )? , '.' digit1 ))
mantissa(i) ==
    IF SpanLen(Digits, i) > 0
    THEN mantissa_int(Take(i, SpanLen(Digits, i)), Drop(i, SpanLen(Digits, i)))
    ELSE mantissa_dot(i)

\* [+-]? cut(digit1) after the letter e: no digit there is Err::Failure.
exponent_digits(i) ==
    IF SpanLen(Digits, Drop(i, SignLen(i))) = 0 THEN Failure
    ELSE [ok |-> TRUE,
          val |-> Signed(i, ToNat(SubSeq(i, SignLen(i) + 1,
                                  SignLen(i) + SpanLen(Digits, Drop(i, SignLen(i)))))),
          len |-> 1 + SignLen(i) + SpanLen(Digits, Drop(i, SignLen(i)))]

\* opt( [eE] [+-]? cut(digit1) )
exponent(i) ==
    IF i # <<>> /\ Head(i) \in {"e", "E"} THEN exponent_digits(Tail(i))
    ELSE [ok |-> TRUE, val |-> 0, len |-> 0]

float_value(i, m, e) ==
    IF ~e.ok THEN Failure
    ELSE Ok(Drop(i, SignLen(i) + m.len + e.len),
            Number(Signed(i, ToNat(m.int \o m.frac)), e.val - Len(m.frac)))

float_exponent(i, m) ==
    IF ~m.ok THEN Error
    ELSE float_value(i, m, exponent(Drop(i, SignLen(i) + m.len)))

\* number::complete::double.  The text recognised is nom's recognize_float,
\*   [+-]? ( digit1 ( '.' digit1? )? | '.' digit1 ) ( [eE] [+-]? cut(digit1) )?
\* which is then converted to the number it denotes.  (The words nan and
\* inf, which some nom releases also take, are left out of the model.)
double(i) == float_exponent(i, mantissa(Drop(i, SignLen(i))))

number(i) == double(i)

StringBody == <<"a", " ", "s", "t", "r", "i", "n", "g", "!">>

quote(i) == char("\"", i)

\* terminated(tag("a string!"), char('\"'))
string_body(i) == terminated(tag(StringBody, i), "quote")

string(i) == preceded(quote(i), "string_body")

(****************************** key ***************************************)

KeyChars == Letters \cup Digits \cup {"_", " "}

\* recognize(many1(alt((alphanumeric1, tag("_"), tag(" "))))): the longest
\* non-empty run of letters, digits, underscores and spaces.
key(i) == Run1(KeyChars, i)

(************************ collections and values **************************)

IndentWidth == 4

RECURSIVE Spaces(_)
Spaces(n) == IF n = 0 THEN <<>> ELSE <<" ">> \o Spaces(n - 1)

RECURSIVE value(_), collection(_), array(_), object(_)

\* terminated(value, newline)
element_value(i) == terminated(value(i), "newline")

\* preceded(tag("- "), terminated(value, newline))
element(i) == preceded(tag(<<"-", " ">>, i), "element_value")

array(i) == many1(element(i), "element")

\* alt((tag(": "), tag(":\n    ")))
separator(i) ==
    alt(tag(<<":", " ">>, i), tag(<<":", "\n">> \o Spaces(IndentWidth), i))

key_value(i) == separated_pair(key(i), "separator", "value")

object(i) == map(separated_list1(key_value(i), "newline", "key_value"), "collect")

collection(i) == alt(map(array(i), "Array"), map(object(i), "Object"))

value(i) ==
    alt(map(string(i), "String"),
        alt(number(i),
            alt(map(boolean(i), "Bool"),
                collection(i))))

\* preceded(opt(newline), eof)
end(i) == preceded(opt(i, newline(i)), "eof")

\* parse with the root read by the value dispatcher.
parse_value(i) == terminated(value(i), "end")

\* terminated(collection, preceded(opt(newline), eof))
parse(i) == terminated(collection(i), "end")

run(p, i) ==
    CASE p = "newline"       -> newline(i)
      [] p = "eof"           -> eof(i)
      [] p = "quote"         -> quote(i)
      [] p = "string_body"   -> string_body(i)
      [] p = "element_value" -> element_value(i)
      [] p = "element"       -> element(i)
      [] p = "separator"     -> separator(i)
      [] p = "key_value"     -> key_value(i)
      [] p = "value"         -> value(i)
      [] p = "end"           -> end(i)

call(f, x) ==
    CASE f = "String"  -> String(x)
      [] f = "Bool"    -> Bool(x)
      [] f = "Array"   -> Array(x)
      [] f = "Object"  -> Object(x)
      [] f = "collect" -> collect(x)

(**************************** documents ***********************************)

(* The caller's side: a document is put together line by line, as the test  *)
(* fixtures are (lib.rs:111-336), and handed to parse.  lines records the   *)
(* lines the text was assembled from; parse only ever sees input.           *)

MaxLines == 4

MaxTrail == 3

MaxText == 4

Line(indent, kind, k, val) == [indent |-> indent, kind |-> kind, key |-> k, val |-> val]

Body(l) ==
    CASE l.kind = "entry"  -> l.key \o <<":", " ">> \o l.val
      [] l.kind = "bare"   -> l.key \o <<":">>
      [] l.kind = "elem"   -> <<"-", " ">> \o l.val
      [] l.kind = "scalar" -> l.val

\* The text a line adds to a document: a newline between lines, the
\* leading spaces, the body.
LineText(first, l) ==
    (IF first THEN <<>> ELSE <<"\n">>) \o Spaces(l.indent) \o Body(l)

RECURSIVE Render(_)
Render(ls) ==
    IF ls = <<>> THEN <<>>
    ELSE Render(Take(ls, Len(ls) - 1)) \o LineText(Len(ls) = 1, ls[Len(ls)])

\* Number of newlines the text ends with.
RECURSIVE Trail(_)
Trail(i) ==
    IF i # <<>> /\ i[Len(i)] = "\n" THEN 1 + Trail(Take(i, Len(i) - 1)) ELSE 0

One == <<"1">>

Two == <<"2">>

True == <<"t", "r", "u", "e">>

Quoted == <<"\"">> \o StringBody \o <<"\"">>

Indents == {0, 2, 4, 8}

\* Lines for the documents about indentation: entries at several widths,
\* bare keys opening a block, keys that read as a number or a boolean.
IndentShapes ==
    {Line(n, "entry", <<"a">>, One) : n \in Indents}
    \cup {Line(0, "entry", <<"c">>, Two)}
    \cup {Line(n, "bare", <<"b">>, <<>>) : n \in {0, 4}}
    \cup {Line(4, "entry", <<"7">>, One), Line(4, "entry", True, One)}

\* Lines for the documents about the kind of a collection: array elements
\* and entries at the root and one level down, bare scalars, an entry
\* whose value is missing.
MixShapes ==
    {Line(n, "elem", <<>>, One) : n \in {0, 4}}
    \cup {Line(0, "elem", <<>>, Quoted)}
    \cup {Line(n, "entry", <<"a">>, One) : n \in {0, 4}}
    \cup {Line(0, "bare", <<"b">>, <<>>), Line(0, "entry", <<"b">>, <<>>)}
    \cup {Line(0, "scalar", <<>>, s) : s \in {One, True, Quoted}}

\* Characters typed after "k: " in the documents about scalar values.
TextChars == {"1", "5", ".", "e", "-", "\"", "b"}

Prefix == <<"k", ":", " ">>

Init ==
    /\ input = <<>>
    /\ lines = <<>>
    /\ pc = "build"
    /\ result = Error

InitText ==
    /\ input = Prefix
    /\ lines = <<>>
    /\ pc = "build"
    /\ result = Error

AddLine(l) ==
    /\ pc = "build"
    /\ Len(lines) < MaxLines
    /\ lines' = Append(lines, l)
    /\ input' = input \o LineText(lines = <<>>, l)
    /\ UNCHANGED <<pc, result>>

\* The newline(s) a fixture ends with.
EndLine ==
    /\ pc \in {"build", "ended"}
    /\ lines # <<>>
    /\ Trail(input) < MaxTrail
    /\ input' = Append(input, "\n")
    /\ pc' = "ended"
    /\ UNCHANGED <<lines, result>>

TypeChar(c) ==
    /\ pc = "build"
    /\ Len(input) < Len(Prefix) + MaxText
    /\ input' = Append(input, c)
    /\ UNCHANGED <<lines, pc, result>>

Parse ==
    /\ pc \in {"build", "ended"}
    /\ result' = parse(input)
    /\ pc' = "done"
    /\ UNCHANGED <<input, lines>>

Next ==
    \/ \E l \in IndentShapes : AddLine(l)
    \/ EndLine
    \/ Parse

NextMix ==
    \/ \E l \in MixShapes : AddLine(l)
    \/ EndLine
    \/ Parse

NextText ==
    \/ \E c \in TextChars : TypeChar(c)
    \/ Parse

\* Documents about indentation.
Spec == Init /\ [][Next]_vars

\* Documents mixing arrays, entries and bare scalars.
SpecMix == Init /\ [][NextMix]_vars

\* One-entry documents "k: " + text.
SpecText == InitText /\ [][NextText]_vars


(****************************** claims ************************************)

Done == pc = "done"

\* A parsed document that ends with at most the one newline of a fixture.
Plain == Done /\ Trail(input) <= 1

\* The key does not start like a number or a boolean literal.
PlainKey(k) == ~number(k).ok /\ ~number(k).fatal /\ ~boolean(k).ok

Last == lines[Len(lines)]

C1_Document ==
    /\ Len(lines) >= 4
    /\ lines[1].kind = "entry" /\ lines[1].indent = 0
    /\ lines[2].kind = "bare" /\ lines[2].indent = 0
    /\ \A j \in 3..(Len(lines) - 1) :
          /\ lines[j].kind = "entry"
          /\ lines[j].indent = 4
          /\ PlainKey(lines[j].key)
    /\ Last.kind = "entry" /\ Last.indent = 0

\* C1: in a document `k1: v1`, `obj:`, one or more entries indented by 4
\* spaces, then `k2: v2` back at column 0, parse succeeds, k2 is bound in
\* the root object and the object under obj holds exactly the indented
\* entries.
C1_ShallowerLineEndsObject ==
    (Plain /\ C1_Document) =>
        /\ result.ok
        /\ result.out.kind = "Object"
        /\ Last.key \in DOMAIN result.out.map
        /\ lines[2].key \in DOMAIN result.out.map
        /\ result.out.map[lines[2].key].kind = "Object"
        /\ DOMAIN result.out.map[lines[2].key].map
             = {lines[j].key : j \in 3..(Len(lines) - 1)}

C2_Document ==
    /\ Len(lines) >= 3
    /\ lines[1].indent = 0
    /\ \A j \in 1..(Len(lines) - 2) : lines[j].kind = "bare"
    /\ \A j \in 2..(Len(lines) - 1) : lines[j].indent > lines[j - 1].indent
    /\ lines[Len(lines) - 1].kind = "entry"
    /\ PlainKey(lines[Len(lines) - 1].key)
    /\ Last.kind = "entry"
    /\ Last.indent < lines[Len(lines) - 1].indent
    /\ \A j \in 1..(Len(lines) - 1) : Last.indent # lines[j].indent

\* C2: a document whose lines open nested collections at increasing
\* leading-space counts and then hold a line whose leading-space count is
\* smaller than the current level but equal to none of the enclosing
\* levels (a partial dedent) makes parse return an error.
C2_PartialDedentFails == (Plain /\ C2_Document) => ~result.ok

C3_Document ==
    /\ lines # <<>>
    /\ lines[1].indent = 0
    /\ \E j \in 1..(Len(lines) - 1) :
          /\ lines[j].kind = "entry"
          /\ lines[j].val # <<>>
          /\ PlainKey(lines[j].key)
          /\ lines[j + 1].indent > lines[j].indent

\* C3: when an entry with an inline scalar value is immediately followed
\* by a line with strictly more leading spaces, parse returns an error.
C3_DeeperAfterScalarFails == (Plain /\ C3_Document) => ~result.ok

C4_Document(w) ==
    /\ Len(lines) >= 2
    /\ lines[1].kind = "bare" /\ lines[1].indent = 0
    /\ \A j \in 2..Len(lines) :
          /\ lines[j].kind = "entry"
          /\ lines[j].indent = w
          /\ PlainKey(lines[j].key)

\* The same lines with the nested block indented by w spaces.
Reindent(ls, w) ==
    [j \in DOMAIN ls |-> IF j = 1 THEN ls[j] ELSE [ls[j] EXCEPT !.indent = w]]

\* C4: for every width w >= 1, `obj:` followed by a block whose entries all
\* have exactly w leading spaces parses to the same Value as the same
\* document indented with 4 spaces, and the nested keys carry no leading
\* spaces.
C4_AnyIndentWidth ==
    \A w \in Indents \ {0} :
        (Plain /\ C4_Document(w)) =>
            /\ result.ok
            /\ result = parse(Render(Reindent(lines, 4))
                              \o Drop(input, Len(Render(lines))))
            /\ \A k \in DOMAIN result.out.map[lines[1].key].map : Head(k) # " "

\* Lines m and n belong to one collection: the same leading-space count,
\* and no shallower line between them.
SameCollection(m, n) ==
    /\ m < n
    /\ lines[m].indent = lines[n].indent
    /\ \A j \in m..n : lines[j].indent >= lines[m].indent

\* A `key: value` line.
Inline(l) == l.kind = "entry" /\ l.val # <<>>

C5_Mixed ==
    /\ lines # <<>>
    /\ lines[1].indent = 0
    /\ \E m, n \in DOMAIN lines :
          /\ SameCollection(m, n)
          /\ \/ lines[m].kind = "elem" /\ Inline(lines[n])
             \/ Inline(lines[m]) /\ lines[n].kind = "elem"

StrictNumber(t) ==
    /\ SpanLen(Digits, Drop(t, SignLen(t))) > 0
    /\ \/ SignLen(t) + SpanLen(Digits, Drop(t, SignLen(t))) = Len(t)
       \/ /\ t[SignLen(t) + SpanLen(Digits, Drop(t, SignLen(t))) + 1] = "."
          /\ SignLen(t) + SpanLen(Digits, Drop(t, SignLen(t))) + 1 < Len(t)
          /\ \A j \in (SignLen(t) + SpanLen(Digits, Drop(t, SignLen(t))) + 2)..Len(t) :
                t[j] \in Digits

ValueOfK == result.out.map[<<"k">>]

\* C6: parse of `k: ` + t succeeds with a Number value if and only if the
\* whole of t is: optional sign, one or more decimal digits, optionally
\* `.` followed by one or more decimal digits.
C6_NumberGrammar ==
    (Done /\ lines = <<>>) =>
        ((result.ok /\ ValueOfK.kind = "Number") <=> StrictNumber(Drop(input, Len(Prefix))))

\* C7: for every body b without a double quote or a newline, parse of
\* `k: "` + b + `"` succeeds and the value is String(b).
C7_AnyStringBody ==
    (/\ Done /\ lines = <<>>
     /\ Len(input) >= Len(Prefix) + 3
     /\ input[Len(Prefix) + 1] = "\""
     /\ input[Len(input)] = "\""
     /\ \A j \in (Len(Prefix) + 2)..(Len(input) - 1) : input[j] \notin {"\"", "\n"})
    => /\ result.ok
       /\ ValueOfK = String(SubSeq(input, Len(Prefix) + 2, Len(input) - 1))

\* What is left of the input after the root collection and one newline.
Remainder ==
    IF newline(collection(input).rest).ok
    THEN newline(collection(input).rest).rest
    ELSE collection(input).rest

\* C8: when parse succeeds the root value is an Object or an Array (the
\* one the first line begins) and nothing of the input is left after the
\* collection and at most one newline; a bare scalar document and a
\* document with text left after the root collection return an error.
C8_RootCollectionWholeInput ==
    (Done /\ lines # <<>>) =>
        /\ result.ok =>
              /\ \/ result.out.kind = "Array" /\ lines[1].kind = "elem"
                 \/ result.out.kind = "Object" /\ lines[1].kind \in {"entry", "bare"}
              /\ result.rest = <<>>
              /\ collection(input).ok
              /\ Remainder = <<>>
              \* an array element takes the newline that ends its line
              /\ Trail(input) <= (IF Last.kind = "elem" THEN 2 ELSE 1)
        /\ (Len(lines) = 1 /\ lines[1].kind = "scalar") => ~result.ok
        /\ (collection(input).ok /\ Remainder # <<>>) => ~result.ok

\* An array document of two elements, ending with the one newline that may
\* follow the collection, was parsed.
C8_Witness ==
    /\ Done
    /\ result.ok
    /\ result.out.kind = "Array"
    /\ Len(result.out.items) = 2
    /\ Trail(input) = 2

C9_NoValue ==
    /\ lines # <<>>
    /\ lines[1].indent = 0
    /\ \E j \in DOMAIN lines :
          \/ /\ lines[j].kind = "bare"
             /\ j < Len(lines) => lines[j + 1].indent <= lines[j].indent
          \/ lines[j].kind = "entry" /\ lines[j].val = <<>>

\* C9: an object entry without a value (`k:` at the end of the input,
\* `k: ` with nothing after the separator, `k:` followed by a line that
\* is not indented deeper than the entry) makes parse return an error.
C9_EntryWithoutValueFails == (Done /\ C9_NoValue) => ~result.ok

\* The alternatives of the dispatcher that succeed on i.
Succeeding(i) ==
    {n \in {"string", "number", "boolean", "array", "object"} :
        CASE n = "string"  -> string(i).ok
          [] n = "number"  -> number(i).ok
          [] n = "boolean" -> boolean(i).ok
          [] n = "array"   -> array(i).ok
          [] n = "object"  -> object(i).ok}

C10_Document ==
    /\ Len(lines) = 2
    /\ lines[1].kind = "bare" /\ lines[1].indent = 0
    /\ lines[2].kind = "entry" /\ lines[2].indent = 4

\* C10: on a nested block that is a valid object, whatever its first key
\* starts with, at most one of the five alternatives succeeds and the
\* value returned for the block is an Object.
C10_TrialOrderUnambiguous ==
    (Plain /\ C10_Document) =>
        /\ Cardinality(Succeeding(Drop(input, Len(Body(lines[1])) + 1 + 4))) <= 1
        /\ result.ok
        /\ result.out.map[lines[1].key].kind = "Object"

=============================================================================
